---- MODULE Spec2Model ----
(***************************************************************************)
(* Model of together_app.py: the magic-byte image type detector and the    *)
(* three MCP tool handlers generate_image, edit_image and describe_image.  *)
(*                                                                         *)
(* Bytes are integers 0..255.  A Python str holding base64 text is a       *)
(* sequence of symbols: 0..63 is the alphabet character with that 6-bit    *)
(* value, PAD is '=', JUNK is an ASCII character outside the alphabet      *)
(* (such as '!' or a newline) and NONASCII is a non-ASCII character.       *)
(***************************************************************************)
EXTENDS Integers, Sequences, FiniteSets, TLC

\* ------------------------------------------------------------------ bounds
\* number of leading header bytes that the input generator may overwrite
MaxMutPos == 12
\* number of bytes an image may have beyond its 24-byte header
MaxExtra == 2
\* longest run of characters the input generator may overwrite in a string
MaxRun == 4
\* number of distinct case ids uuid4 may produce in the model
MaxCaseId == 2

\* ------------------------------------------------------- base64 characters
PAD == 64
JUNK == 65
NONASCII == 66

Min(a, b) == IF a < b THEN a ELSE b

\* Python slice s[lo:hi] for 0 <= lo, 0 <= hi (0-based, hi exclusive,
\* clipped to the length of s)
Slice(s, lo, hi) ==
  LET h == Min(hi, Len(s))
  IN IF lo >= h THEN <<>> ELSE SubSeq(s, lo + 1, h)

\* bytes.startswith
StartsWith(s, p) == Len(s) >= Len(p) /\ SubSeq(s, 1, Len(p)) = p

\* base64.b64encode(b).decode('utf-8'): 3 bytes -> 4 characters, '=' padded
RECURSIVE b64encode(_)
b64encode(b) ==
  IF Len(b) = 0 THEN <<>>
  ELSE IF Len(b) = 1 THEN
    << b[1] \div 4, (b[1] % 4) * 16, PAD, PAD >>
  ELSE IF Len(b) = 2 THEN
    << b[1] \div 4, (b[1] % 4) * 16 + (b[2] \div 16), (b[2] % 16) * 4, PAD >>
  ELSE
    << b[1] \div 4,
       (b[1] % 4) * 16 + (b[2] \div 16),
       (b[2] % 16) * 4 + (b[3] \div 64),
       b[3] % 64 >> \o b64encode(SubSeq(b, 4, Len(b)))

\* binascii.a2b_base64 in its default non-strict mode, as base64.b64decode
\* calls it: characters outside the alphabet are skipped, a pad sequence
\* that completes a quad ends the parse, and leftover characters of an
\* incomplete quad are an error.
RECURSIVE a2b_base64(_, _, _, _, _, _)
a2b_base64(s, i, quad_pos, leftchar, pads, out) ==
  IF i > Len(s) THEN
    IF quad_pos # 0 THEN [err |-> "binascii.Error", bytes |-> <<>>]
    ELSE [err |-> "", bytes |-> out]
  ELSE IF s[i] = PAD THEN
    IF quad_pos >= 2 /\ quad_pos + pads + 1 >= 4 THEN [err |-> "", bytes |-> out]
    ELSE a2b_base64(s, i + 1, quad_pos, leftchar,
                    IF quad_pos >= 2 THEN pads + 1 ELSE pads, out)
  ELSE IF s[i] >= 64 THEN
    a2b_base64(s, i + 1, quad_pos, leftchar, pads, out)
  ELSE IF quad_pos = 0 THEN
    a2b_base64(s, i + 1, 1, s[i], 0, out)
  ELSE IF quad_pos = 1 THEN
    a2b_base64(s, i + 1, 2, s[i] % 16, 0,
               Append(out, leftchar * 4 + (s[i] \div 16)))
  ELSE IF quad_pos = 2 THEN
    a2b_base64(s, i + 1, 3, s[i] % 4, 0,
               Append(out, leftchar * 16 + (s[i] \div 4)))
  ELSE
    a2b_base64(s, i + 1, 0, 0, 0, Append(out, leftchar * 64 + s[i]))

\* base64.b64decode(s) for a str argument: a non-ASCII character is a
\* ValueError, everything else goes to a2b_base64
b64decode(s) ==
  IF \E i \in 1..Len(s) : s[i] = NONASCII
  THEN [err |-> "ValueError", bytes |-> <<>>]
  ELSE a2b_base64(s, 1, 0, 0, 0, <<>>)

\* ------------------------------------------------------------ magic bytes
PNG_SIG == <<137, 80, 78, 71, 13, 10, 26, 10>>
JPEG_SIG == <<255, 216, 255>>
RIFF == <<82, 73, 70, 70>>
WEBP == <<87, 69, 66, 80>>

\* detect_image_type with the WEBP tag looked up right after 'RIFF'
detect_image_type_offset4(b64string) ==
  LET d == b64decode(Slice(b64string, 0, 32))
      header_bytes == d.bytes
  IN IF d.err # "" THEN [err |-> d.err, fmt |-> ""]
     ELSE IF StartsWith(header_bytes, PNG_SIG) THEN [err |-> "", fmt |-> "png"]
     ELSE IF StartsWith(header_bytes, JPEG_SIG) THEN [err |-> "", fmt |-> "jpeg"]
     ELSE IF StartsWith(header_bytes, RIFF) /\ Slice(header_bytes, 4, 8) = WEBP
       THEN [err |-> "", fmt |-> "webp"]
     ELSE [err |-> "", fmt |-> "png"]

\* detect_image_type without the decode step raising
detect_image_type_lenient(b64string) ==
  LET d == b64decode(Slice(b64string, 0, 32))
      header_bytes == d.bytes
  IN IF StartsWith(header_bytes, PNG_SIG) THEN [err |-> "", fmt |-> "png"]
     ELSE IF StartsWith(header_bytes, JPEG_SIG) THEN [err |-> "", fmt |-> "jpeg"]
     ELSE IF StartsWith(header_bytes, RIFF) /\ Slice(header_bytes, 8, 12) = WEBP
       THEN [err |-> "", fmt |-> "webp"]
     ELSE [err |-> "", fmt |-> "png"]

\* detect_image_type: err is the exception b64decode raised ("" for none),
\* fmt the returned type
detect_image_type(b64string) ==
  LET d == b64decode(Slice(b64string, 0, 32))
      header_bytes == d.bytes
  IN IF d.err # "" THEN [err |-> d.err, fmt |-> ""]
     ELSE IF StartsWith(header_bytes, PNG_SIG) THEN [err |-> "", fmt |-> "png"]
     ELSE IF StartsWith(header_bytes, JPEG_SIG) THEN [err |-> "", fmt |-> "jpeg"]
     ELSE IF StartsWith(header_bytes, RIFF) /\ Slice(header_bytes, 8, 12) = WEBP
       THEN [err |-> "", fmt |-> "webp"]
     ELSE [err |-> "", fmt |-> "png"]

\* ------------------------------------------------------------- input sets
\* 24-byte headers of real files: PNG, JPEG (JFIF), WebP, WAV (RIFF without
\* WEBP), GIF and an HTML error page
PngHeader == PNG_SIG \o <<0, 0, 0, 13, 73, 72, 68, 82, 0, 0, 4, 0, 0, 0, 7, 0>>
JpegHeader == JPEG_SIG \o <<224, 0, 16, 74, 70, 73, 70, 0, 1, 1, 0, 0, 1, 0, 1, 0, 0, 255, 219, 0, 67>>
WebpHeader == RIFF \o <<36, 0, 0, 0>> \o WEBP \o <<86, 80, 56, 32, 24, 0, 0, 0, 48, 1, 0, 157>>
WavHeader == RIFF \o <<36, 8, 0, 0, 87, 65, 86, 69, 102, 109, 116, 32, 16, 0, 0, 0, 1, 0, 2, 0>>
GifHeader == <<71, 73, 70, 56, 57, 97, 1, 0, 1, 0, 128, 0, 0, 255, 255, 255, 0, 0, 0, 33, 249, 4, 1, 0>>
HtmlHeader == <<60, 104, 116, 109, 108, 62, 60, 98, 111, 100, 121, 62, 78, 111, 116, 32, 70, 111, 117, 110, 100, 60, 47, 98>>

Headers == {PngHeader, JpegHeader, WebpHeader, WavHeader, GifHeader, HtmlHeader}

\* byte values written over a header byte
MutValues == {0, 137, 255, 216, 82, 87, 80}

\* the bytes that follow a header
Filler(n) == [i \in 1..n |-> 170]

\* the headers, each also with one of its first MaxMutPos bytes overwritten
MutatedHeaders ==
  Headers \cup
  { [h EXCEPT ![p] = v] : h \in Headers, p \in 1..Min(MaxMutPos, 24), v \in MutValues }

\* images of 24 .. 24 + MaxExtra bytes
Images == { h \o Filler(n) : h \in MutatedHeaders, n \in 0..MaxExtra }

\* s with the n characters from position p on replaced by sym
Overwrite(s, p, n, sym) ==
  [i \in 1..Len(s) |-> IF i >= p /\ i < p + n THEN sym ELSE s[i]]

\* strings that are not the encoding of anything: an encoded image with a
\* run of characters replaced by '=', by a character outside the alphabet
\* or by a non-ASCII character, or cut short
Damaged(s) ==
  { Overwrite(s, p, n, sym) :
      p \in 1..Len(s), n \in 1..MaxRun, sym \in {PAD, JUNK, NONASCII} }
  \cup { SubSeq(s, 1, k) : k \in {1, 2, 3, 30, 31} }

\* ------------------------------------------------------------------ state
VARIABLES
  pc,            \* position of the running handler
  tool,          \* the tool being invoked
  prompt,        \* its prompt argument
  image_path,    \* its image_path argument
  file_base64,   \* edit/describe: base64 of the file that was read
  response,      \* response of client.images.generate
  chat,          \* response.choices of client.chat.completions.create
  case_id,       \* uuid of the invocation, 0 before it is drawn
  img_response,  \* response of requests.get
  image_base64,  \* image_base64 / result_base64
  output_format, \* result of detect_image_type
  result,        \* value returned to the caller
  raised,        \* exception raised inside the try block, "" for none
  delivered,     \* exception that left the handler, "" for none
  log,           \* entries the handler wrote to the logger, oldest first
  trace,         \* calls the handler made out of its own body, oldest first
  raw,           \* detector run: bytes the input was encoded from
  din,           \* detector run: the base64 string given to the detector
  dout,          \* detector run: what the detector produced
  dpc            \* detector run: position

handlerVars == <<pc, tool, prompt, image_path, file_base64, response, chat,
                 case_id, img_response, image_base64, output_format, result,
                 raised, delivered, log, trace>>
detectVars == <<raw, din, dout, dpc>>
vars == <<handlerVars, detectVars>>

\* a str that is None or empty is falsy either way; both are the empty string
NoResult == [type |-> "none"]
NoHttp == [status |-> 0, content |-> <<>>]
NoResponse == [none |-> TRUE, data |-> <<>>]
NoContent == "<None>"

Prompts == {"", "a cat"}
Paths == {"", "/img/a.png", "/img/missing.png"}
Url == "http://example/x.jpg"
CaseIds == 1..MaxCaseId
Statuses == {200, 404, 500}

\* bodies an HTTP GET may return and contents a file may have
NotFoundBody == <<78, 111, 116, 32, 70, 111, 117, 110, 100>>
Bodies == {<<>>, PngHeader, JpegHeader \o Filler(1), WebpHeader \o Filler(2),
           WavHeader, NotFoundBody}

\* inline payloads: None/empty, encoded images, and strings that are not
\* base64
Payloads ==
  {<<>>} \cup { b64encode(b) : b \in Bodies \ {<<>>} }
  \cup { Overwrite(b64encode(JpegHeader), 4, 1, PAD),
         Overwrite(b64encode(JpegHeader), 5, 4, JUNK),
         Overwrite(b64encode(PngHeader), 1, 1, JUNK),
         Overwrite(b64encode(PngHeader), 2, 1, NONASCII),
         SubSeq(b64encode(WebpHeader), 1, 31) }

ImageRefs == [url : {"", Url}, b64_json : Payloads]

\* what client.images.generate may return: data None, no image, one image,
\* or two images
ImageResponses ==
  {NoResponse} \cup {[none |-> FALSE, data |-> <<>>]}
  \cup { [none |-> FALSE, data |-> <<r>>] : r \in ImageRefs }
  \cup { [none |-> FALSE, data |-> <<r, [url |-> Url, b64_json |-> <<>>]>>] :
           r \in ImageRefs }

ChatResponses == { <<>>, <<[content |-> NoContent]>>,
                   <<[content |-> "A cat on a mat."]>> }

Init ==
  /\ pc = "idle"
  /\ tool = ""
  /\ prompt = ""
  /\ image_path = ""
  /\ file_base64 = <<>>
  /\ response = NoResponse
  /\ chat = <<>>
  /\ case_id = 0
  /\ img_response = NoHttp
  /\ image_base64 = <<>>
  /\ output_format = ""
  /\ result = NoResult
  /\ raised = ""
  /\ delivered = ""
  /\ log = <<>>
  /\ trace = <<>>
  /\ raw = <<>>
  /\ din = <<>>
  /\ dout = [err |-> "", fmt |-> ""]
  /\ dpc = "idle"

\* ---------------------------------------------------------------- helpers
\* an except block that raises a new error in place of the caught one
ExceptBlockWrap(t) ==
  /\ pc = "except" /\ tool = t
  /\ log' = Append(log, "failed")
  /\ delivered' = "ToolError"
  /\ pc' = "done"
  /\ UNCHANGED <<tool, prompt, image_path, file_base64, response, chat,
                 case_id, img_response, image_base64, output_format, result,
                 raised, trace, detectVars>>

\* an except block that tries the upstream call once more before giving up
ExceptBlockRetry(t) ==
  /\ pc = "except" /\ tool = t
  /\ IF Len(trace) < 4 /\ raised = "UpstreamError"
     THEN /\ raised' = ""
          /\ pc' = "api"
          /\ UNCHANGED <<log, delivered>>
     ELSE /\ log' = Append(log, "failed")
          /\ delivered' = raised
          /\ pc' = "done"
          /\ UNCHANGED raised
  /\ UNCHANGED <<tool, prompt, image_path, file_base64, response, chat,
                 case_id, img_response, image_base64, output_format, result,
                 trace, detectVars>>

\* the except block common to the three handlers: logger.error, then raise
ExceptBlock(t) ==
  /\ pc = "except" /\ tool = t
  /\ log' = Append(log, "failed")
  /\ delivered' = raised
  /\ pc' = "done"
  /\ UNCHANGED <<tool, prompt, image_path, file_base64, response, chat,
                 case_id, img_response, image_base64, output_format, result,
                 raised, trace, detectVars>>

\* entry of a handler: the arguments arrive, the 'called' entry is logged
Enter(t, p, path, first) ==
  /\ pc \in {"idle", "done"}
  /\ tool' = t /\ prompt' = p /\ image_path' = path
  /\ log' = <<"called">>
  /\ trace' = <<>>
  /\ file_base64' = <<>> /\ response' = NoResponse /\ chat' = <<>>
  /\ case_id' = 0 /\ img_response' = NoHttp /\ image_base64' = <<>>
  /\ output_format' = "" /\ result' = NoResult
  /\ raised' = "" /\ delivered' = ""
  /\ pc' = first
  /\ UNCHANGED detectVars

\* with open(image_path, "rb") as f: image_data = f.read(); b64encode
ReadFile(t, next) ==
  /\ pc = "read" /\ tool = t
  /\ trace' = Append(trace, "open")
  /\ \/ /\ raised' = "FileNotFoundError"
        /\ pc' = "except"
        /\ UNCHANGED file_base64
     \/ /\ image_path # ""
        /\ \E image_data \in Bodies :
             file_base64' = b64encode(image_data)
        /\ pc' = next
        /\ UNCHANGED raised
  /\ UNCHANGED <<tool, prompt, image_path, response, chat, case_id,
                 img_response, image_base64, output_format, result,
                 delivered, log, detectVars>>

\* response = client.images.generate(...); logger.info(len(response.data))
ImagesGenerate(t) ==
  /\ pc = "api" /\ tool = t
  /\ trace' = Append(trace, "images.generate")
  /\ \/ /\ raised' = "UpstreamError"
        /\ pc' = "except"
        /\ UNCHANGED <<response, log>>
     \/ \E r \in ImageResponses :
          /\ response' = r
          /\ IF r.none
             THEN /\ raised' = "TypeError"
                  /\ pc' = "except"
                  /\ UNCHANGED log
             ELSE /\ log' = Append(log, "response")
                  /\ pc' = "check"
                  /\ UNCHANGED raised
  /\ UNCHANGED <<tool, prompt, image_path, file_base64, chat, case_id,
                 img_response, image_base64, output_format, result,
                 delivered, detectVars>>

\* if not response.data: raise ValueError; case_id = uuid.uuid4().hex
CheckData(t) ==
  /\ pc = "check" /\ tool = t
  /\ IF response.data = <<>>
     THEN /\ log' = Append(log, "warning")
          /\ raised' = "ValueError: No images generated"
          /\ pc' = "except"
          /\ UNCHANGED case_id
     ELSE /\ \E c \in CaseIds : case_id' = c
          /\ pc' = "fetch"
          /\ UNCHANGED <<log, raised>>
  /\ UNCHANGED <<tool, prompt, image_path, file_base64, response, chat,
                 img_response, image_base64, output_format, result,
                 delivered, trace, detectVars>>

\* FetchImage that substitutes an empty buffer for a reference without data
FetchImageNoRaise(t) ==
  LET image == response.data[1] IN
  /\ pc = "fetch" /\ tool = t
  /\ IF image.url # ""
     THEN /\ trace' = Append(trace, "requests.get")
          /\ \/ /\ raised' = "ConnectionError"
                /\ pc' = "except"
                /\ UNCHANGED <<img_response, image_base64>>
             \/ \E st \in Statuses, body \in Bodies :
                  /\ img_response' = [status |-> st, content |-> body]
                  /\ image_base64' = b64encode(body)
                  /\ pc' = "detect"
                  /\ UNCHANGED raised
     ELSE /\ image_base64' = image.b64_json
          /\ pc' = "detect"
          /\ UNCHANGED <<trace, img_response, raised>>
  /\ UNCHANGED <<tool, prompt, image_path, file_base64, response, chat,
                 case_id, output_format, result, delivered, log, detectVars>>

\* FetchImage that fetches the url field whether or not it is set
FetchImageAlwaysGet(t) ==
  LET image == response.data[1] IN
  /\ pc = "fetch" /\ tool = t
  /\ trace' = Append(trace, "requests.get")
  /\ \/ /\ raised' = "ConnectionError"
        /\ pc' = "except"
        /\ UNCHANGED <<img_response, image_base64>>
     \/ \E st \in Statuses, body \in Bodies :
          /\ img_response' = [status |-> st, content |-> body]
          /\ image_base64' = b64encode(body)
          /\ pc' = "detect"
          /\ UNCHANGED raised
  /\ UNCHANGED <<tool, prompt, image_path, file_base64, response, chat,
                 case_id, output_format, result, delivered, log, detectVars>>

\* image = response.data[0]; if image.url: requests.get, b64encode(content)
\* elif image.b64_json: verbatim; else: raise ValueError
FetchImage(t) ==
  LET image == response.data[1] IN
  /\ pc = "fetch" /\ tool = t
  /\ IF image.url # ""
     THEN /\ trace' = Append(trace, "requests.get")
          /\ \/ /\ raised' = "ConnectionError"
                /\ pc' = "except"
                /\ UNCHANGED <<img_response, image_base64>>
             \/ \E st \in Statuses, body \in Bodies :
                  /\ img_response' = [status |-> st, content |-> body]
                  /\ image_base64' = b64encode(body)
                  /\ pc' = "detect"
                  /\ UNCHANGED raised
     ELSE IF image.b64_json # <<>>
     THEN /\ image_base64' = image.b64_json
          /\ pc' = "detect"
          /\ UNCHANGED <<trace, img_response, raised>>
     ELSE /\ raised' = "ValueError: No image data in response"
          /\ pc' = "except"
          /\ UNCHANGED <<trace, img_response, image_base64>>
  /\ UNCHANGED <<tool, prompt, image_path, file_base64, response, chat,
                 case_id, output_format, result, delivered, log, detectVars>>

\* output_format = detect_image_type(b64) for the b64 the handler holds
DetectType(t, b64, next) ==
  /\ pc = "detect" /\ tool = t
  /\ trace' = Append(trace, "detect_image_type")
  /\ LET d == detect_image_type(b64) IN
       IF d.err # ""
       THEN /\ raised' = d.err
            /\ pc' = "except"
            /\ UNCHANGED output_format
       ELSE /\ output_format' = d.fmt
            /\ pc' = next
            /\ UNCHANGED raised
  /\ UNCHANGED <<tool, prompt, image_path, file_base64, response, chat,
                 case_id, img_response, image_base64, result, delivered,
                 log, detectVars>>

\* a mime type spelled 'image/jpg' for JPEG data
MimeTypeJpg(fmt) == IF fmt = "jpeg" THEN "image/jpg" ELSE "image/" \o fmt

\* f"image/{output_format}"
MimeType(fmt) == "image/" \o fmt

\* result = ImageContent(...); logger.info(completed); return result
ReturnImage(t, annotations) ==
  /\ pc = "build" /\ tool = t
  /\ result' = [type |-> "image", data |-> image_base64,
                mimeType |-> MimeType(output_format),
                annotations |-> annotations]
  /\ log' = Append(log, "completed")
  /\ pc' = "done"
  /\ UNCHANGED <<tool, prompt, image_path, file_base64, response, chat,
                 case_id, img_response, image_base64, output_format,
                 raised, delivered, trace, detectVars>>

\* --------------------------------------------------------- generate_image
GenerateCall == \E p \in Prompts : Enter("generate_image", p, "", "api")
GenerateApi == ImagesGenerate("generate_image")
GenerateCheck == CheckData("generate_image")
GenerateFetch == FetchImage("generate_image")
GenerateDetect == DetectType("generate_image", image_base64, "build")
GenerateReturn ==
  ReturnImage("generate_image", [case_id |-> case_id, prompt |-> prompt])
GenerateExcept == ExceptBlock("generate_image")

\* ------------------------------------------------------------- edit_image
EditCall ==
  \E path \in Paths, p \in Prompts : Enter("edit_image", p, path, "read")
EditRead == ReadFile("edit_image", "api")
EditApi == ImagesGenerate("edit_image")
EditCheck == CheckData("edit_image")
EditFetch == FetchImage("edit_image")
EditDetect == DetectType("edit_image", image_base64, "build")
\* edit_image with the annotations of generate_image
EditReturnNoSource ==
  ReturnImage("edit_image", [case_id |-> case_id, prompt |-> prompt])

EditReturn ==
  ReturnImage("edit_image", [case_id |-> case_id, prompt |-> prompt,
                             source_image |-> image_path])
EditExcept == ExceptBlock("edit_image")

\* --------------------------------------------------------- describe_image
DescribeCall == \E path \in Paths : Enter("describe_image", "", path, "read")
DescribeRead == ReadFile("describe_image", "detect")
DescribeDetect == DetectType("describe_image", file_base64, "api")

\* response = client.chat.completions.create(...)
DescribeApi ==
  /\ pc = "api" /\ tool = "describe_image"
  /\ trace' = Append(trace, "chat.completions.create")
  /\ \/ /\ raised' = "UpstreamError"
        /\ pc' = "except"
        /\ UNCHANGED chat
     \/ /\ \E c \in ChatResponses : chat' = c
        /\ pc' = "build"
        /\ UNCHANGED raised
  /\ UNCHANGED <<tool, prompt, image_path, file_base64, response, case_id,
                 img_response, image_base64, output_format, result,
                 delivered, log, detectVars>>

\* description = response.choices[0].message.content;
\* logger.info(len(description)); return description
DescribeReturn ==
  /\ pc = "build" /\ tool = "describe_image"
  /\ IF chat = <<>>
     THEN /\ raised' = "IndexError"
          /\ pc' = "except"
          /\ UNCHANGED <<result, log>>
     ELSE IF chat[1].content = NoContent
     THEN /\ raised' = "TypeError"
          /\ pc' = "except"
          /\ UNCHANGED <<result, log>>
     ELSE /\ result' = [type |-> "text", text |-> chat[1].content]
          /\ log' = Append(log, "completed")
          /\ pc' = "done"
          /\ UNCHANGED raised
  /\ UNCHANGED <<tool, prompt, image_path, file_base64, response, chat,
                 case_id, img_response, image_base64, output_format,
                 delivered, trace, detectVars>>

DescribeExcept == ExceptBlock("describe_image")

Next ==
  \/ GenerateCall \/ GenerateApi \/ GenerateCheck \/ GenerateFetch
  \/ GenerateDetect \/ GenerateReturn \/ GenerateExcept
  \/ EditCall \/ EditRead \/ EditApi \/ EditCheck \/ EditFetch
  \/ EditDetect \/ EditReturn \/ EditExcept
  \/ DescribeCall \/ DescribeRead \/ DescribeDetect \/ DescribeApi
  \/ DescribeReturn \/ DescribeExcept

Spec == Init /\ [][Next]_vars

\* --------------------------------------------- the detector as a function
\* inputs of a detector run: the encoding of an image, or a damaged
\* encoding of one of the unmodified headers
DetectInit ==
  /\ pc = "idle" /\ tool = "" /\ prompt = "" /\ image_path = ""
  /\ file_base64 = <<>> /\ response = NoResponse /\ chat = <<>>
  /\ case_id = 0 /\ img_response = NoHttp /\ image_base64 = <<>>
  /\ output_format = "" /\ result = NoResult /\ raised = ""
  /\ delivered = "" /\ log = <<>> /\ trace = <<>>
  /\ raw \in Images \cup Bodies
  /\ \/ din = b64encode(raw)
     \/ /\ \E h \in Headers, n \in 0..MaxExtra : raw = h \o Filler(n)
        /\ din \in Damaged(b64encode(raw))
  /\ dout = [err |-> "", fmt |-> ""]
  /\ dpc = "start"

DetectApply ==
  /\ dpc = "start"
  /\ dout' = detect_image_type(din)
  /\ dpc' = "done"
  /\ UNCHANGED <<handlerVars, raw, din>>

DetectNext == DetectApply

DetectSpec == DetectInit /\ [][DetectNext]_vars

\* ================================================================= claims
\* number of entries of s equal to x, and whether there is one
Count(s, x) == Cardinality({i \in 1..Len(s) : s[i] = x})
Has(s, x) == \E i \in 1..Len(s) : s[i] = x

ImageTools == {"generate_image", "edit_image"}
MimeTypes == {"image/png", "image/jpeg", "image/webp"}

\* the upstream call returned a response whose first image is ref-shaped
HasImage == tool \in ImageTools /\ ~response.none /\ response.data # <<>>

\* the classification the rules give for a 24-byte header, read off the
\* bytes themselves
RuleType(h) ==
  IF SubSeq(h, 1, 8) = <<137, 80, 78, 71, 13, 10, 26, 10>> THEN "png"
  ELSE IF SubSeq(h, 1, 3) = <<255, 216, 255>> THEN "jpeg"
  ELSE IF SubSeq(h, 1, 4) = <<82, 73, 70, 70>>
          /\ SubSeq(h, 9, 12) = <<87, 69, 66, 80>> THEN "webp"
  ELSE "png"

\* C1: for a base64 input of at least 32 characters that encodes an image,
\* the detector returns the type its ordered rules give for the first 24
\* bytes: png for the PNG signature, else jpeg for FF D8 FF, else webp for
\* RIFF with WEBP at offset 8, else png.
C1_DetectRules ==
  (dpc = "done" /\ din = b64encode(raw) /\ Len(raw) >= 24)
    => /\ Len(din) >= 32
       /\ dout = [err |-> "", fmt |-> RuleType(SubSeq(raw, 1, 24))]

\* a RIFF file that is not WebP was classified, by the default rule, as png
C1_Witness ==
  /\ dpc = "done" /\ din = b64encode(raw) /\ Len(raw) > 24
  /\ SubSeq(raw, 1, 4) = RIFF /\ SubSeq(raw, 9, 12) # WEBP
  /\ dout.fmt = "png"

\* C2: every returned ImageContent has one of the three mime types, and it
\* is 'image/' followed by the detector's answer for the returned data.
C2_MimeType ==
  result.type = "image"
    => /\ result.mimeType \in MimeTypes
       /\ result.mimeType = "image/" \o detect_image_type(result.data).fmt

\* an artifact was returned for a url whose GET gave an empty body
C2_Witness ==
  /\ result.type = "image" /\ Has(trace, "requests.get")
  /\ img_response.content = <<>> /\ result.data = <<>>

\* C3: with only the inline payload set, no HTTP GET is made, a returned
\* artifact carries the payload unchanged, and one is returned whenever
\* the detector accepts the payload.
C3_InlineVerbatim ==
  (HasImage /\ response.data[1].url = "" /\ response.data[1].b64_json # <<>>)
    => /\ ~Has(trace, "requests.get")
       /\ result.type = "image" => result.data = response.data[1].b64_json
       /\ (pc = "done" /\ detect_image_type(response.data[1].b64_json).err = "")
            => result.type = "image"

\* edit_image returned an inline WebP payload
C3_Witness ==
  /\ tool = "edit_image" /\ pc = "done" /\ result.type = "image"
  /\ response.data[1].url = ""
  /\ result.data = b64encode(WebpHeader \o Filler(2))
  /\ result.mimeType = "image/webp"

\* C4: an empty image list, or a first reference with neither url nor
\* payload, ends the invocation with a no-image-data error: no artifact,
\* no HTTP GET, and the detector is not run.
C4_NoImageData ==
  (tool \in ImageTools /\ ~response.none
     /\ (response.data = <<>>
         \/ (response.data[1].url = "" /\ response.data[1].b64_json = <<>>)))
    => /\ result = NoResult
       /\ ~Has(trace, "requests.get")
       /\ ~Has(trace, "detect_image_type")
       /\ pc = "done" =>
            delivered = (IF response.data = <<>>
                         THEN "ValueError: No images generated"
                         ELSE "ValueError: No image data in response")

\* an invocation ended on a reference that had neither field set
C4_Witness ==
  /\ pc = "done" /\ HasImage
  /\ response.data[1].url = "" /\ response.data[1].b64_json = <<>>
  /\ delivered = "ValueError: No image data in response"

\* C5: an invocation with an empty prompt or an empty image path never
\* calls the upstream API and ends with an invalid-input error.
C5_InputValidated ==
  (pc # "idle"
     /\ \/ (tool \in ImageTools /\ prompt = "")
        \/ (tool \in {"edit_image", "describe_image"} /\ image_path = ""))
    => /\ ~Has(trace, "images.generate")
       /\ ~Has(trace, "chat.completions.create")
       /\ pc = "done" => delivered = "InvalidInput"

\* strict base64: a multiple of four alphabet characters, the last one or
\* two of which may be '='
ValidB64(s) ==
  /\ Len(s) % 4 = 0
  /\ \A i \in 1..Len(s) :
       \/ s[i] < 64
       \/ /\ s[i] = PAD
          /\ \/ i = Len(s)
             \/ (i = Len(s) - 1 /\ s[Len(s)] = PAD)

\* C6: the detector fails with a decode error on every input whose first
\* 32 characters are not valid base64.
C6_MalformedRejected ==
  (dpc = "done" /\ ~ValidB64(Slice(din, 0, 32))) => dout.err # ""

\* C7: when the GET of the url fails (connection error or non-2xx status)
\* the invocation fails and the response body is not returned as an image.
C7_FailedFetchFails ==
  (pc = "done" /\ tool \in ImageTools /\ Has(trace, "requests.get")
     /\ ~(img_response.status \in 200..299))
    => result = NoResult /\ delivered # ""

\* C8: a failure after the 'called' entry writes exactly one 'failed'
\* entry, as the last entry, before the same error reaches the caller and
\* writes no 'completed'; a returned result comes with 'completed' and no
\* 'failed'.
C8_FailureLogged ==
  /\ pc # "idle" => log[1] = "called"
  /\ delivered # "" => pc = "done"
  /\ (pc = "done" /\ raised # "")
       => /\ Count(log, "failed") = 1
          /\ log[Len(log)] = "failed"
          /\ delivered = raised
          /\ ~Has(log, "completed")
          /\ result = NoResult
  /\ pc # "done" => (~Has(log, "failed") /\ ~Has(log, "completed"))
  /\ (pc = "done" /\ raised = "")
       => /\ result # NoResult
          /\ log[Len(log)] = "completed"
          /\ Count(log, "completed") = 1
          /\ ~Has(log, "failed")
          /\ delivered = ""

\* describe_image failed on a null description after the upstream call
C8_Witness ==
  /\ tool = "describe_image" /\ pc = "done" /\ delivered = "TypeError"
  /\ log = <<"called", "failed">>
  /\ trace = <<"open", "detect_image_type", "chat.completions.create">>

UpstreamCalls ==
  Count(trace, "images.generate") + Count(trace, "chat.completions.create")

\* C9: an invocation calls the upstream API at most once and issues at
\* most one HTTP GET, and from the moment a step has failed it makes no
\* further call and ends with that error.
C9_NoRetry ==
  /\ [](UpstreamCalls <= 1 /\ Count(trace, "requests.get") <= 1)
  /\ [][pc = "except"
          => (trace' = trace /\ pc' = "done" /\ delivered' = raised)]_vars

\* generate_image ended after its one upstream call and one failed GET
C9_Witness ==
  /\ pc = "done" /\ delivered = "ConnectionError"
  /\ trace = <<"images.generate", "requests.get">>

\* C10: a returned artifact's 'prompt' annotation is the invocation's
\* prompt, and it has a 'source_image' annotation, equal to the
\* invocation's image path, exactly when edit_image produced it.
C10_Annotations ==
  result.type = "image"
    => /\ result.annotations.prompt = prompt
       /\ ("source_image" \in DOMAIN result.annotations) <=> (tool = "edit_image")
       /\ tool = "edit_image" => result.annotations.source_image = image_path

\* edit_image returned an artifact for a prompt and an existing file
C10_Witness ==
  /\ tool = "edit_image" /\ result.type = "image"
  /\ prompt = "a cat" /\ image_path = "/img/a.png"
  /\ result.annotations.source_image = "/img/a.png"

====
